---------------------------- MODULE Spec2Model ----------------------------
(***************************************************************************)
(* A model of src/main.rs: an axum HTTP service that loads its             *)
(* configuration from the environment, binds a TCP listener, serves three  *)
(* static routes and shuts down through shutdown_signal (a race between    *)
(* Ctrl+C and SIGTERM followed by a fixed sleep).                          *)
(*                                                                         *)
(* The process is modelled at the granularity of the statements of         *)
(* main.rs.  Calls into tokio and axum are atomic steps with the           *)
(* behaviour of those libraries:                                           *)
(*  - tokio installs a signal handler when the signal future is first      *)
(*    polled and never uninstalls it; a signal whose handler is not yet    *)
(*    installed has its default disposition and terminates the process;    *)
(*  - axum::serve(..).with_graceful_shutdown(f) runs f in a spawned task,  *)
(*    accepts connections until that task is over (f returned, or f was    *)
(*    dropped by a panic), then drops the listener and waits, with no      *)
(*    time limit, for the connections it accepted.                         *)
(***************************************************************************)
EXTENDS Integers, Sequences, FiniteSets, TLC

VARIABLES
    env,              \* the process environment: DATABASE_URL, APP_PORT, GRACEFUL_SHUTDOWN_TIMEOUT
    unix,             \* cfg(unix): whether the SIGTERM branch is compiled in
    pc,               \* position of main
    exit,             \* how the process ended: [kind, status]
    app_port,         \* main's app_port (u16), -1 before it is assigned
    shutdown_timeout, \* main's shutdown_timeout (u64), -1 before it is assigned
    listener,         \* the TcpListener: [state, port]
    sig_pc,           \* position of the shutdown_signal future
    polled,           \* branches of the select! that have been polled
    installed,        \* signals whose tokio handler is installed
    pending,          \* signals received by a live branch and not yet consumed
    delivered,        \* number of signals of each kind sent to the process
    resolvedBy,       \* the branch that completed the select!
    sleepDuration,    \* the Duration handed to tokio::time::sleep, -1 before
    elapsed,          \* seconds slept so far
    drainWaited,      \* seconds spent waiting for connections after the accept loop ended
    conn,             \* client connections: [st, path, status, body]
    serveResult,      \* the io::Result of the serve future
    log,              \* the lines written through tracing
    installError,     \* the signal whose handler could not be installed, or "none"
    triggerAfterBind, \* history: a signal was sent while the listener was bound
    lateTriggers      \* history: signals sent after the select! had completed

vars == << env, unix, pc, exit, app_port, shutdown_timeout, listener, sig_pc,
           polled, installed, pending, delivered, resolvedBy, sleepDuration,
           elapsed, drainWaited, conn, serveResult, log, installError,
           triggerAfterBind, lateTriggers >>

---------------------------------------------------------------------------
(* Bounds of the model *)

MaxConns == 1
MaxSignals == 2
MaxDrainWait == 3

(* Program constants *)

DefaultPort == 8080
DefaultTimeout == 10

---------------------------------------------------------------------------
(* Text, and Rust's <u16 as FromStr> / <u64 as FromStr> *)

Digits == {"0", "1", "2", "3", "4", "5", "6", "7", "8", "9"}

DigitVal(c) ==
    CASE c = "0" -> 0 [] c = "1" -> 1 [] c = "2" -> 2 [] c = "3" -> 3
      [] c = "4" -> 4 [] c = "5" -> 5 [] c = "6" -> 6 [] c = "7" -> 7
      [] c = "8" -> 8 [] c = "9" -> 9

U16MaxDigits == <<"6", "5", "5", "3", "5">>
U64MaxDigits == <<"1", "8", "4", "4", "6", "7", "4", "4", "0", "7",
                  "3", "7", "0", "9", "5", "5", "1", "6", "1", "5">>

RECURSIVE StripZeros(_)
StripZeros(ds) ==
    IF ds # <<>> /\ Head(ds) = "0" THEN StripZeros(Tail(ds)) ELSE ds

RECURSIVE DigitsGreater(_, _)
(* a > b for two digit strings of the same length *)
DigitsGreater(a, b) ==
    IF a = <<>> THEN FALSE
    ELSE IF DigitVal(Head(a)) # DigitVal(Head(b))
         THEN DigitVal(Head(a)) > DigitVal(Head(b))
         ELSE DigitsGreater(Tail(a), Tail(b))

(* checked_mul(10) / checked_add(digit) fail on some prefix exactly when   *)
(* the numeral exceeds the type's MAX; leading zeros never overflow.       *)
Overflows(ds, maxDigits) ==
    LET n == StripZeros(ds)
    IN  \/ Len(n) > Len(maxDigits)
        \/ Len(n) = Len(maxDigits) /\ DigitsGreater(n, maxDigits)

RECURSIVE Accumulate(_, _)
Accumulate(ds, acc) ==
    IF ds = <<>> THEN acc
    ELSE Accumulate(Tail(ds), acc * 10 + DigitVal(Head(ds)))

ParseErr == [ok |-> FALSE, val |-> 0]

(* A faulty parse that takes a leading "-" for a sign, as a signed type    *)
(* would.                                                                  *)
ParseUnsignedAcceptsMinus(s, maxDigits) ==
    IF s = <<>> THEN ParseErr
    ELSE IF Len(s) = 1 /\ Head(s) \in {"+", "-"} THEN ParseErr
    ELSE LET ds == IF Head(s) \in {"+", "-"} THEN Tail(s) ELSE s
         IN  IF \E i \in 1..Len(ds) : ds[i] \notin Digits THEN ParseErr
             ELSE IF Overflows(ds, maxDigits) THEN ParseErr
             ELSE [ok |-> TRUE, val |-> Accumulate(StripZeros(ds), 0)]

(* core::num from_str_radix(src, 10) for an unsigned type: an empty string *)
(* is an error, a lone sign is an error, one leading "+" is skipped, a "-" *)
(* is not a digit, every other character must be a decimal digit, and the  *)
(* accumulation is checked against the type's MAX.                         *)
ParseUnsigned(s, maxDigits) ==
    IF s = <<>> THEN ParseErr
    ELSE IF Len(s) = 1 /\ Head(s) \in {"+", "-"} THEN ParseErr
    ELSE LET ds == IF Head(s) = "+" THEN Tail(s) ELSE s
         IN  IF \E i \in 1..Len(ds) : ds[i] \notin Digits THEN ParseErr
             ELSE IF Overflows(ds, maxDigits) THEN ParseErr
             ELSE [ok |-> TRUE, val |-> Accumulate(StripZeros(ds), 0)]

(* env::var(name): Ok(value) when the variable is set to valid Unicode,    *)
(* Err when it is not set or not Unicode.                                  *)
EnvVar(name) ==
    IF env[name].kind = "set" THEN [ok |-> TRUE, val |-> env[name].val]
    ELSE [ok |-> FALSE, val |-> <<>>]

(* env::var(name).unwrap_or_else(|_| default.into()).parse().unwrap_or(n) *)
ConfigValue(name, defaultText, maxDigits, default) ==
    LET text == IF EnvVar(name).ok THEN EnvVar(name).val ELSE defaultText
        r == ParseUnsigned(text, maxDigits)
    IN  IF r.ok THEN r.val ELSE default


---------------------------------------------------------------------------
(* The process environment *)

Unset == [kind |-> "unset", val |-> <<>>]
NotUnicode == [kind |-> "not_unicode", val |-> <<>>]
Set(text) == [kind |-> "set", val |-> text]

DatabaseUrls == {Unset, NotUnicode, Set(<<"d", "b">>), Set(<<>>)}

PortTexts ==
    { <<>>, <<"8", "0", "8", "0">>, <<"3", "0", "0", "0">>, <<"0">>,
      <<"6", "5", "5", "3", "5">>, <<"6", "5", "5", "3", "6">>,
      <<"-", "1">>, <<"a", "b", "c">>, <<"+", "8", "0">>, <<"0", "8", "0">>,
      <<" ", "8", "0">>, <<"8", "0", "a">>, <<"+">>,
      <<"9", "9", "9", "9", "9">> }

TimeoutTexts ==
    { <<>>, <<"0">>, <<"1">>, <<"3">>, <<"+", "2">>, <<"-", "5">>, <<"x">>,
      <<"0", "0", "4">>, <<"1", ".", "5">>, <<"1", "0">>,
      <<"1", "8", "4", "4", "6", "7", "4", "4", "0", "7",
        "3", "7", "0", "9", "5", "5", "1", "6", "1", "6">> }

Signals == {"SIGINT", "SIGTERM"}
Branches == {"ctrl_c", "terminate"}

(* The routes of the Router built at main.rs:89-92 *)
Routes == {"/", "/api", "/health"}

NoConn == [st |-> "closed", path |-> "", status |-> 0, body |-> "", at |-> ""]

Clients == 1..MaxConns

Running == [kind |-> "none", status |-> -1]

Alive == pc # "exited"

Line(level, msg, arg) == [level |-> level, msg |-> msg, arg |-> arg]

InitWith(dbs, ports, timeouts) ==
    /\ env \in [ DATABASE_URL : dbs, APP_PORT : ports,
                  GRACEFUL_SHUTDOWN_TIMEOUT : timeouts ]
    /\ unix \in BOOLEAN
    /\ pc = "boot"
    /\ exit = Running
    /\ app_port = -1
    /\ shutdown_timeout = -1
    /\ listener = [state |-> "unbound", port |-> -1]
    /\ sig_pc = "none"
    /\ polled = {}
    /\ installed = {}
    /\ pending = {}
    /\ delivered = [s \in Signals |-> 0]
    /\ resolvedBy = "none"
    /\ sleepDuration = -1
    /\ elapsed = 0
    /\ drainWaited = 0
    /\ conn = [c \in Clients |-> NoConn]
    /\ serveResult = "none"
    /\ log = <<>>
    /\ installError = "none"
    /\ triggerAfterBind = FALSE
    /\ lateTriggers = 0

(* The life of the server is explored with the timeouts 0 and 2; a process *)
(* without DATABASE_URL is started with every combination of the others.   *)
Init ==
    \/ InitWith({Set(<<"d", "b">>)}, {Unset},
                {Set(<<"0">>), Set(<<"2">>)})
    \/ InitWith({Unset, NotUnicode},
                {Unset, Set(<<"3", "0", "0", "0">>), Set(<<"a", "b", "c">>)},
                {Unset, Set(<<"0">>), Set(<<"x">>)})

InitConfig ==
    InitWith(DatabaseUrls,
             {Unset, NotUnicode} \cup {Set(t) : t \in PortTexts},
             {Unset, NotUnicode} \cup {Set(t) : t \in TimeoutTexts})

---------------------------------------------------------------------------
(* main *)

(* The process is over: its sockets are closed and its tasks are gone. *)
ProcessEnds(kind, status) ==
    /\ pc' = "exited"
    /\ exit' = [kind |-> kind, status |-> status]
    /\ conn' = [c \in Clients |->
                  IF conn[c].st = "responded" THEN conn[c] ELSE NoConn]
    /\ pending' = {}

(* main.rs:57-59 *)
Boot ==
    /\ pc = "boot"
    /\ log' = Append(log, Line("INFO", "Booting application", -1))
    /\ pc' = "load_database_url"
    /\ UNCHANGED << env, unix, exit, app_port, shutdown_timeout, listener,
                    sig_pc, polled, installed, pending, delivered,
                    resolvedBy, sleepDuration, elapsed, drainWaited, conn,
                    serveResult, triggerAfterBind, installError,
                    lateTriggers >>

(* A faulty load that goes on without DATABASE_URL. *)
LoadDatabaseUrlIgnoresAbsence ==
    /\ pc = "load_database_url"
    /\ log' = Append(log, Line("INFO", "DATABASE_URL loaded (value hidden)", -1))
    /\ pc' = "load_config"
    /\ UNCHANGED << env, unix, exit, app_port, shutdown_timeout, listener,
                    sig_pc, polled, installed, pending, delivered,
                    resolvedBy, sleepDuration, elapsed, drainWaited, conn,
                    serveResult, triggerAfterBind, installError,
                    lateTriggers >>

(* main.rs:65-73 *)
LoadDatabaseUrl ==
    /\ pc = "load_database_url"
    /\ IF EnvVar("DATABASE_URL").ok
       THEN /\ log' = Append(log, Line("INFO", "DATABASE_URL loaded (value hidden)", -1))
            /\ pc' = "load_config"
            /\ UNCHANGED << exit, conn, pending >>
       ELSE /\ log' = Append(log, Line("WARN", "DATABASE_URL is not set", -1))
            /\ ProcessEnds("process_exit", 1)
    /\ UNCHANGED << env, unix, app_port, shutdown_timeout, listener, sig_pc,
                    polled, installed, delivered, resolvedBy, sleepDuration,
                    elapsed, drainWaited, serveResult, triggerAfterBind,
                    installError, lateTriggers >>

(* main.rs:75-83 *)
LoadConfig ==
    /\ pc = "load_config"
    /\ app_port' = ConfigValue("APP_PORT", <<"8", "0", "8", "0">>,
                               U16MaxDigits, DefaultPort)
    /\ shutdown_timeout' = ConfigValue("GRACEFUL_SHUTDOWN_TIMEOUT", <<"1", "0">>,
                                       U64MaxDigits, DefaultTimeout)
    /\ pc' = "bind"
    /\ UNCHANGED << env, unix, exit, listener, sig_pc, polled, installed,
                    pending, delivered, resolvedBy, sleepDuration, elapsed,
                    drainWaited, conn, serveResult, log, triggerAfterBind,
                    installError, lateTriggers >>

(* TcpListener::bind on port 0 asks the kernel for a free port of its      *)
(* ephemeral range; any other port is bound as given.                      *)
EphemeralPorts == {32768, 60999}

BoundPorts(port) == IF port = 0 THEN EphemeralPorts ELSE {port}

(* main.rs:98-103: the address is logged, then bound; a bind error panics *)
Bind ==
    /\ pc = "bind"
    /\ log' = Append(log, Line("INFO", "Listening on http://0.0.0.0:{}", app_port))
    /\ \E ok \in BOOLEAN :
          IF ok
          THEN /\ \E p \in BoundPorts(app_port) :
                     listener' = [state |-> "bound", port |-> p]
               /\ pc' = "serve"
               /\ UNCHANGED << exit, conn, pending >>
          ELSE /\ ProcessEnds("panic", 101)
               /\ UNCHANGED listener
    /\ UNCHANGED << env, unix, app_port, shutdown_timeout, sig_pc, polled,
                    installed, delivered, resolvedBy, sleepDuration,
                    elapsed, drainWaited, serveResult, triggerAfterBind,
                    installError, lateTriggers >>

(* main.rs:105-107: shutdown_signal(shutdown_timeout) is created (an async *)
(* fn runs nothing until polled), handed to with_graceful_shutdown, and    *)
(* the await spawns it as a task and starts the accept loop.               *)
StartServe ==
    /\ pc = "serve"
    /\ pc' = "serving"
    /\ sig_pc' = "start"
    /\ UNCHANGED << env, unix, exit, app_port, shutdown_timeout, listener,
                    polled, installed, pending, delivered, resolvedBy,
                    sleepDuration, elapsed, drainWaited, conn, serveResult,
                    log, triggerAfterBind, installError, lateTriggers >>

---------------------------------------------------------------------------
(* shutdown_signal *)

SignalOf(b) == IF b = "ctrl_c" THEN "SIGINT" ELSE "SIGTERM"

(* An expect() fails inside the spawned task: either the build aborts on   *)
(* panic, or the task unwinds and the future (with axum's signal receiver) *)
(* is dropped.                                                             *)
PanicInTask(sig) ==
    /\ installError' = sig
    /\ \E abort \in BOOLEAN :
       IF abort
       THEN /\ ProcessEnds("abort", 134)
            /\ UNCHANGED << sig_pc, polled, installed >>
       ELSE /\ sig_pc' = "Panicked"
            /\ pending' = {}
            /\ UNCHANGED << pc, exit, conn, polled, installed >>

Armed(b) ==
    /\ polled' = polled \cup {b}
    /\ sig_pc' = IF polled \cup {b} = Branches THEN "Running" ELSE "start"
    /\ UNCHANGED << pc, exit, conn, pending, installError >>

(* main.rs:146-150, first poll of the ctrl_c branch *)
PollCtrlC ==
    /\ Alive
    /\ sig_pc = "start"
    /\ "ctrl_c" \notin polled
    /\ \E ok \in BOOLEAN :
          IF ok
          THEN /\ installed' = installed \cup {"SIGINT"}
               /\ Armed("ctrl_c")
          ELSE PanicInTask("SIGINT")
    /\ UNCHANGED << env, unix, app_port, shutdown_timeout, listener,
                    delivered, resolvedBy, sleepDuration, elapsed,
                    drainWaited, serveResult, log, triggerAfterBind,
                    lateTriggers >>

(* main.rs:152-161, first poll of the terminate branch: on unix the        *)
(* SIGTERM handler is installed, elsewhere the branch is pending::<()>()   *)
PollTerminate ==
    /\ Alive
    /\ sig_pc = "start"
    /\ "terminate" \notin polled
    /\ IF unix
       THEN \E ok \in BOOLEAN :
               IF ok
               THEN /\ installed' = installed \cup {"SIGTERM"}
                    /\ Armed("terminate")
               ELSE PanicInTask("SIGTERM")
       ELSE /\ UNCHANGED installed
            /\ Armed("terminate")
    /\ UNCHANGED << env, unix, app_port, shutdown_timeout, listener,
                    delivered, resolvedBy, sleepDuration, elapsed,
                    drainWaited, serveResult, log, triggerAfterBind,
                    lateTriggers >>

TotalDelivered == delivered["SIGINT"] + delivered["SIGTERM"]

(* A faulty signal layer that restores the default disposition once the   *)
(* listening futures are dropped.                                          *)
DeliverSignalDefaultRestored(s) ==
    /\ Alive
    /\ TotalDelivered < MaxSignals
    /\ s = "SIGTERM" => unix
    /\ delivered' = [delivered EXCEPT ![s] = @ + 1]
    /\ triggerAfterBind' = (triggerAfterBind \/ listener.state = "bound")
    /\ lateTriggers' = IF resolvedBy # "none" THEN lateTriggers + 1 ELSE lateTriggers
    /\ IF s \in installed /\ sig_pc \in {"start", "Running"}
       THEN /\ pending' = pending \cup {s}
            /\ UNCHANGED << pc, exit, conn >>
       ELSE ProcessEnds("signal", IF s = "SIGINT" THEN 130 ELSE 143)
    /\ UNCHANGED << env, unix, app_port, shutdown_timeout, listener, sig_pc,
                    polled, installed, resolvedBy, sleepDuration, elapsed,
                    drainWaited, serveResult, log, installError >>

(* The environment sends SIGINT (Ctrl+C) or SIGTERM.  With tokio's handler *)
(* installed the signal reaches the branch that listens for it, if that    *)
(* branch is still alive; otherwise the default disposition ends the       *)
(* process.                                                                *)
DeliverSignal(s) ==
    /\ Alive
    /\ TotalDelivered < MaxSignals
    /\ s = "SIGTERM" => unix
    /\ delivered' = [delivered EXCEPT ![s] = @ + 1]
    /\ triggerAfterBind' = (triggerAfterBind \/ listener.state = "bound")
    /\ lateTriggers' = IF resolvedBy # "none" THEN lateTriggers + 1 ELSE lateTriggers
    /\ IF s \in installed
       THEN /\ pending' = IF sig_pc \in {"start", "Running"}
                          THEN pending \cup {s} ELSE pending
            /\ UNCHANGED << pc, exit, conn >>
       ELSE ProcessEnds("signal", IF s = "SIGINT" THEN 130 ELSE 143)
    /\ UNCHANGED << env, unix, app_port, shutdown_timeout, listener, sig_pc,
                    polled, installed, resolvedBy, sleepDuration, elapsed,
                    drainWaited, serveResult, log, installError >>

(* A faulty race that waits for both triggers (a join). *)
RaceResolveJoin(b) ==
    /\ Alive
    /\ sig_pc = "Running"
    /\ pending = {SignalOf(x) : x \in Branches}
    /\ sig_pc' = "ShutdownRequested"
    /\ resolvedBy' = b
    /\ pending' = {}
    /\ UNCHANGED << env, unix, pc, exit, app_port, shutdown_timeout,
                    listener, polled, installed, delivered, sleepDuration,
                    elapsed, drainWaited, conn, serveResult, log,
                    triggerAfterBind, installError, lateTriggers >>

(* main.rs:163-166: select! completes with the first branch that is ready; *)
(* the other branch is dropped                                             *)
RaceResolve(b) ==
    /\ Alive
    /\ sig_pc = "Running"
    /\ SignalOf(b) \in pending
    /\ sig_pc' = "ShutdownRequested"
    /\ resolvedBy' = b
    /\ pending' = {}
    /\ UNCHANGED << env, unix, pc, exit, app_port, shutdown_timeout,
                    listener, polled, installed, delivered, sleepDuration,
                    elapsed, drainWaited, conn, serveResult, log,
                    triggerAfterBind, installError, lateTriggers >>

(* main.rs:168-169: the notice is logged and the sleep is started *)
BeginDrain ==
    /\ Alive
    /\ sig_pc = "ShutdownRequested"
    /\ log' = Append(log, Line("INFO", "Shutdown signal received, draining for {}s",
                               shutdown_timeout))
    /\ sleepDuration' = shutdown_timeout
    /\ elapsed' = 0
    /\ sig_pc' = "Draining"
    /\ UNCHANGED << env, unix, pc, exit, app_port, shutdown_timeout,
                    listener, polled, installed, pending, delivered,
                    resolvedBy, drainWaited, conn, serveResult,
                    triggerAfterBind, installError, lateTriggers >>

(* one second of the sleep passes *)
TickSleep ==
    /\ Alive
    /\ sig_pc = "Draining"
    /\ elapsed < sleepDuration
    /\ elapsed' = elapsed + 1
    /\ UNCHANGED << env, unix, pc, exit, app_port, shutdown_timeout,
                    listener, sig_pc, polled, installed, pending, delivered,
                    resolvedBy, sleepDuration, drainWaited, conn,
                    serveResult, log, triggerAfterBind, installError,
                    lateTriggers >>

(* main.rs:169-170: the sleep is over and shutdown_signal returns *)
EndDrain ==
    /\ Alive
    /\ sig_pc = "Draining"
    /\ elapsed >= sleepDuration
    /\ sig_pc' = "Exited"
    /\ UNCHANGED << env, unix, pc, exit, app_port, shutdown_timeout,
                    listener, polled, installed, pending, delivered,
                    resolvedBy, sleepDuration, elapsed, drainWaited, conn,
                    serveResult, log, triggerAfterBind, installError,
                    lateTriggers >>

---------------------------------------------------------------------------
(* HTTP handlers *)

(* A faulty health handler that reports the shutdown state. *)
HandlerDrainAware(path) ==
    IF path = "/health" /\ sig_pc \in {"ShutdownRequested", "Draining", "Exited"}
    THEN [status |-> 503, body |-> "{\"status\":\"draining\"}"]
    ELSE IF path = "/health"
    THEN [status |-> 200, body |-> "{\"status\":\"ok\"}"]
    ELSE [status |-> 200, body |-> "{\"status\":\"success\"}"]

(* main.rs:89-92 and 119-139: root_handler, api_handler, health_handler *)
Handler(path) ==
    CASE path = "/" ->
           [status |-> 200,
            body |-> "{\"status\":\"success\",\"message\":\"Hello World\",\"data\":null}"]
      [] path = "/api" ->
           [status |-> 200,
            body |-> "{\"status\":\"success\",\"message\":\"Hello API\",\"data\":null}"]
      [] path = "/health" ->
           [status |-> 200, body |-> "{\"status\":\"ok\"}"]

---------------------------------------------------------------------------
(* axum::serve(listener, app).with_graceful_shutdown(..), and its clients *)

InFlight == {c \in Clients : conn[c].st \in {"reading", "ready"}}

(* a client connects: the kernel queues the connection on the bound socket *)
ClientConnect(c) ==
    /\ Alive
    /\ listener.state = "bound"
    /\ conn[c].st \in {"closed", "responded"}
    /\ conn' = [conn EXCEPT ![c] = [NoConn EXCEPT !.st = "backlog"]]
    /\ UNCHANGED << env, unix, pc, exit, app_port, shutdown_timeout,
                    listener, sig_pc, polled, installed, pending, delivered,
                    resolvedBy, sleepDuration, elapsed, drainWaited,
                    serveResult, log, triggerAfterBind, installError,
                    lateTriggers >>

(* the accept loop takes a queued connection and spawns its task *)
Accept(c) ==
    /\ pc = "serving"
    /\ conn[c].st = "backlog"
    /\ conn' = [conn EXCEPT ![c].st = "reading"]
    /\ UNCHANGED << env, unix, pc, exit, app_port, shutdown_timeout,
                    listener, sig_pc, polled, installed, pending, delivered,
                    resolvedBy, sleepDuration, elapsed, drainWaited,
                    serveResult, log, triggerAfterBind, installError,
                    lateTriggers >>

(* the client completes its GET request *)
ClientSend(c, path) ==
    /\ Alive
    /\ conn[c].st = "reading"
    /\ conn' = [conn EXCEPT ![c].st = "ready", ![c].path = path]
    /\ UNCHANGED << env, unix, pc, exit, app_port, shutdown_timeout,
                    listener, sig_pc, polled, installed, pending, delivered,
                    resolvedBy, sleepDuration, elapsed, drainWaited,
                    serveResult, log, triggerAfterBind, installError,
                    lateTriggers >>

(* the client gives up before completing its request *)
ClientClose(c) ==
    /\ Alive
    /\ conn[c].st = "reading"
    /\ conn' = [conn EXCEPT ![c] = NoConn]
    /\ UNCHANGED << env, unix, pc, exit, app_port, shutdown_timeout,
                    listener, sig_pc, polled, installed, pending, delivered,
                    resolvedBy, sleepDuration, elapsed, drainWaited,
                    serveResult, log, triggerAfterBind, installError,
                    lateTriggers >>

(* the connection's task routes the request and writes the response *)
Respond(c) ==
    /\ pc \in {"serving", "conn_drain"}
    /\ conn[c].st = "ready"
    /\ conn' = [conn EXCEPT ![c].st = "responded",
                            ![c].status = Handler(conn[c].path).status,
                            ![c].body = Handler(conn[c].path).body,
                            ![c].at = IF pc = "conn_drain" THEN "conn_drain"
                                      ELSE sig_pc]
    /\ UNCHANGED << env, unix, pc, exit, app_port, shutdown_timeout,
                    listener, sig_pc, polled, installed, pending, delivered,
                    resolvedBy, sleepDuration, elapsed, drainWaited,
                    serveResult, log, triggerAfterBind, installError,
                    lateTriggers >>

StopAccepting ==
    /\ pc' = "conn_drain"
    /\ listener' = [listener EXCEPT !.state = "closed"]
    /\ conn' = [c \in Clients |->
                  IF conn[c].st = "backlog" THEN NoConn ELSE conn[c]]
    /\ UNCHANGED << env, unix, exit, app_port, shutdown_timeout, sig_pc,
                    polled, installed, pending, delivered, resolvedBy,
                    sleepDuration, elapsed, drainWaited, serveResult, log,
                    triggerAfterBind, installError, lateTriggers >>

(* the signal task is over: the accept loop breaks and the listener is     *)
(* dropped; connections not yet accepted are reset                         *)
ServeLoopBreak ==
    /\ pc = "serving"
    /\ sig_pc \in {"Exited", "Panicked"}
    /\ StopAccepting

(* one second passes while serve waits for the accepted connections *)
TickDrain ==
    /\ pc = "conn_drain"
    /\ InFlight # {}
    /\ drainWaited < MaxDrainWait
    /\ drainWaited' = drainWaited + 1
    /\ UNCHANGED << env, unix, pc, exit, app_port, shutdown_timeout,
                    listener, sig_pc, polled, installed, pending, delivered,
                    resolvedBy, sleepDuration, elapsed, conn, serveResult,
                    log, triggerAfterBind, installError, lateTriggers >>

(* every accepted connection is over: the serve future resolves to its     *)
(* io::Result<()>                                                          *)
ServeComplete(result) ==
    /\ pc = "conn_drain"
    /\ InFlight = {}
    /\ serveResult' = result
    /\ pc' = "after_serve"
    /\ UNCHANGED << env, unix, exit, app_port, shutdown_timeout, listener,
                    sig_pc, polled, installed, pending, delivered,
                    resolvedBy, sleepDuration, elapsed, drainWaited, conn,
                    log, triggerAfterBind, installError, lateTriggers >>

(* A faulty end of main that turns a serve error into exit(1). *)
MainReturnFailsOnErr ==
    /\ pc = "after_serve"
    /\ IF serveResult = "Err"
       THEN /\ log' = Append(log, Line("WARN", "Server terminated: {}", -1))
            /\ ProcessEnds("process_exit", 1)
       ELSE /\ log' = Append(log, Line("INFO", "Server exited cleanly", -1))
            /\ ProcessEnds("returned", 0)
    /\ UNCHANGED << env, unix, app_port, shutdown_timeout, listener, sig_pc,
                    polled, installed, delivered, resolvedBy, sleepDuration,
                    elapsed, drainWaited, serveResult, triggerAfterBind,
                    installError, lateTriggers >>

(* main.rs:105-113: an Err is logged as a warning, the clean-exit line is  *)
(* logged, and main returns                                                *)
MainReturn ==
    /\ pc = "after_serve"
    /\ log' = (IF serveResult = "Err"
               THEN Append(log, Line("WARN", "Server terminated: {}", -1))
               ELSE log)
              \o << Line("INFO", "Server exited cleanly", -1) >>
    /\ ProcessEnds("returned", 0)
    /\ UNCHANGED << env, unix, app_port, shutdown_timeout, listener, sig_pc,
                    polled, installed, delivered, resolvedBy, sleepDuration,
                    elapsed, drainWaited, serveResult, triggerAfterBind,
                    installError, lateTriggers >>

---------------------------------------------------------------------------
(* Specifications *)

Process ==
    \/ Boot
    \/ LoadDatabaseUrl
    \/ LoadConfig
    \/ Bind
    \/ StartServe
    \/ PollCtrlC
    \/ PollTerminate
    \/ \E b \in Branches : RaceResolve(b)
    \/ BeginDrain
    \/ TickSleep
    \/ EndDrain
    \/ ServeLoopBreak
    \/ \E r \in {"Ok", "Err"} : ServeComplete(r)
    \/ MainReturn

Next ==
    \/ Process
    \/ \E s \in Signals : DeliverSignal(s)
    \/ \E c \in Clients : ClientConnect(c)
    \/ \E c \in Clients : Accept(c)
    \/ \E c \in Clients, path \in Routes : ClientSend(c, path)
    \/ \E c \in Clients : ClientClose(c)
    \/ \E c \in Clients : Respond(c)
    \/ TickDrain

Spec == Init /\ [][Next]_vars

(* The configuration is drawn from every text of PortTexts and             *)
(* TimeoutTexts; no client connects.                                       *)
NextConfig ==
    \/ Process
    \/ \E s \in Signals : DeliverSignal(s)

SpecConfig == InitConfig /\ [][NextConfig]_vars

(* tokio polls a task that has been woken, and its timer advances: the     *)
(* steps of shutdown_signal are taken when they can be.  Nothing obliges a *)
(* client to complete a request, nor the environment to send a signal.     *)
FairSpec ==
    /\ Spec
    /\ WF_vars(\E b \in Branches : RaceResolve(b))
    /\ WF_vars(BeginDrain)
    /\ WF_vars(TickSleep)
    /\ WF_vars(EndDrain)

---------------------------------------------------------------------------
(* Properties *)

RECURSIVE CountFrom(_, _, _)
CountFrom(msg, l, i) ==
    IF i > Len(l) THEN 0
    ELSE (IF l[i].msg = msg THEN 1 ELSE 0) + CountFrom(msg, l, i + 1)

Count(msg) == CountFrom(msg, log, 1)

NoticeMsg == "Shutdown signal received, draining for {}s"
CleanMsg == "Server exited cleanly"
TerminatedMsg == "Server terminated: {}"

DatabaseUrlMissing == ~EnvVar("DATABASE_URL").ok

RaceResolved == resolvedBy # "none"

(* C1: the drain sleep never begins before a termination trigger has       *)
(* fired, and once a trigger has fired on the started server the process   *)
(* does not exit before shutdown_signal has slept the whole configured     *)
(* GRACEFUL_SHUTDOWN_TIMEOUT.                                              *)
C1_ExitOnlyAfterFullDrain ==
    /\ sig_pc \in {"Draining", "Exited"} => TotalDelivered > 0
    /\ (pc = "exited" /\ triggerAfterBind)
          => /\ sig_pc = "Exited"
             /\ sleepDuration = shutdown_timeout
             /\ elapsed >= shutdown_timeout

(* C2: with DATABASE_URL absent the process never gets past the load of    *)
(* DATABASE_URL: no listener is bound, no connection is accepted or        *)
(* answered, and when the process ends on its own it is exit(1).           *)
C2_NoStartupWithoutDatabaseUrl ==
    env.DATABASE_URL.kind = "unset"
       => /\ listener.state = "unbound"
          /\ \A c \in Clients : conn[c] = NoConn
          /\ pc \in {"boot", "load_database_url", "exited"}
          /\ sig_pc = "none"
          /\ pc = "exited" =>
                \/ exit.kind = "signal"
                \/ exit = [kind |-> "process_exit", status |-> 1]

C2_Witness ==
    /\ env.DATABASE_URL.kind = "unset"
    /\ env.APP_PORT.kind = "set"
    /\ env.GRACEFUL_SHUTDOWN_TIMEOUT.kind = "set"
    /\ pc = "exited"
    /\ exit = [kind |-> "process_exit", status |-> 1]

(* C3: once the select! has completed, a further SIGINT or SIGTERM changes *)
(* nothing but the count of signals sent: not the position of main or of   *)
(* shutdown_signal, not the sleep or the time slept, not the log, the      *)
(* listener, the connections or the exit; and the shutdown notice is       *)
(* logged at most once.                                                    *)
C3_SingleShot ==
    /\ [](Count(NoticeMsg) <= 1)
    /\ [][ (RaceResolved /\ delivered' # delivered)
             => UNCHANGED << pc, exit, sig_pc, resolvedBy, sleepDuration,
                             elapsed, drainWaited, log, listener, conn,
                             serveResult, pending, installed >> ]_vars

C3_Witness ==
    /\ lateTriggers >= 1
    /\ pc = "exited"
    /\ exit = [kind |-> "returned", status |-> 0]
    /\ sig_pc = "Exited"
    /\ elapsed = shutdown_timeout
    /\ shutdown_timeout > 0
    /\ Count(NoticeMsg) = 1

HealthOk == [status |-> 200, body |-> "{\"status\":\"ok\"}"]

(* C4 as claimed: from the bind until the process exits a GET /health can  *)
(* reach the server and is answered 200 "ok".                              *)
C4_HealthUntilExit ==
    /\ (Alive /\ listener.state # "unbound" /\ installError = "none")
          => listener.state = "bound"
    /\ \A c \in Clients :
          (conn[c].st = "responded" /\ conn[c].path = "/health")
             => [status |-> conn[c].status, body |-> conn[c].body] = HealthOk

(* C4 as amended: every answer to GET /health is 200 "ok" whatever the     *)
(* shutdown state, and the listener stays bound from the bind until        *)
(* shutdown_signal is over, that is while running, after a trigger and     *)
(* during the whole drain sleep; after that it is dropped.                 *)
C4_HealthWhileAccepting ==
    /\ (Alive /\ listener.state # "unbound"
          /\ sig_pc \in {"none", "start", "Running", "ShutdownRequested", "Draining"})
          => listener.state = "bound"
    /\ (pc = "conn_drain") => listener.state = "closed"
    /\ \A c \in Clients :
          (conn[c].st = "responded" /\ conn[c].path = "/health")
             => [status |-> conn[c].status, body |-> conn[c].body] = HealthOk

C4_Witness ==
    \E c \in Clients :
       /\ conn[c].st = "responded"
       /\ conn[c].path = "/health"
       /\ conn[c].status = 200
       /\ conn[c].at = "conn_drain"
       /\ pc = "conn_drain"

(* C5: after a termination trigger and the drain sleep, the wait for the   *)
(* accepted connections is bounded by the same grace window, so that a     *)
(* connection that never completes cannot keep the process alive.          *)
C5_BoundedConnectionDrain ==
    (pc = "conn_drain" /\ RaceResolved) => drainWaited <= shutdown_timeout

(* C6: when the Ctrl+C handler cannot be installed the process has ended   *)
(* with a failure, and it is never serving without that handler.           *)
C6_AbortWithoutCtrlC ==
    installError = "SIGINT"
       => /\ pc = "exited"
          /\ exit.status # 0

(* The values the documentation of the configuration gives: the number     *)
(* written in the variable when it is a decimal number of the type's       *)
(* range, the default otherwise.                                           *)
DocumentedPort(v) ==
    IF v.kind # "set" THEN DefaultPort
    ELSE CASE v.val = <<"8", "0", "8", "0">> -> 8080
           [] v.val = <<"3", "0", "0", "0">> -> 3000
           [] v.val = <<"0">> -> 0
           [] v.val = <<"6", "5", "5", "3", "5">> -> 65535
           [] v.val = <<"+", "8", "0">> -> 80
           [] v.val = <<"0", "8", "0">> -> 80
           [] OTHER -> DefaultPort

DocumentedTimeout(v) ==
    IF v.kind # "set" THEN DefaultTimeout
    ELSE CASE v.val = <<"0">> -> 0
           [] v.val = <<"1">> -> 1
           [] v.val = <<"2">> -> 2
           [] v.val = <<"3">> -> 3
           [] v.val = <<"+", "2">> -> 2
           [] v.val = <<"0", "0", "4">> -> 4
           [] v.val = <<"1", "0">> -> 10
           [] OTHER -> DefaultTimeout

ConfigLoaded == app_port # -1

(* C7 as claimed: the effective port and timeout are the documented ones,  *)
(* the listener is bound on exactly that port, the sleep lasts exactly     *)
(* that timeout, and only a missing DATABASE_URL makes main exit.          *)
C7_ConfigAsDocumented ==
    /\ ConfigLoaded =>
          /\ app_port = DocumentedPort(env.APP_PORT)
          /\ shutdown_timeout = DocumentedTimeout(env.GRACEFUL_SHUTDOWN_TIMEOUT)
    /\ listener.state # "unbound" => listener.port = DocumentedPort(env.APP_PORT)
    /\ sleepDuration # -1 =>
          sleepDuration = DocumentedTimeout(env.GRACEFUL_SHUTDOWN_TIMEOUT)
    /\ exit.kind = "process_exit" => DatabaseUrlMissing

(* C7 as amended: as claimed, except that the listener is bound on exactly *)
(* the effective port only when that port is not 0.                        *)
C7_ConfigAsDocumentedNonZeroPort ==
    /\ ConfigLoaded =>
          /\ app_port = DocumentedPort(env.APP_PORT)
          /\ shutdown_timeout = DocumentedTimeout(env.GRACEFUL_SHUTDOWN_TIMEOUT)
    /\ (listener.state # "unbound" /\ DocumentedPort(env.APP_PORT) # 0)
          => listener.port = DocumentedPort(env.APP_PORT)
    /\ (sig_pc = "ShutdownRequested") => sleepDuration = -1
    /\ (sig_pc \in {"Draining", "Exited"}) =>
          sleepDuration = DocumentedTimeout(env.GRACEFUL_SHUTDOWN_TIMEOUT)
    /\ exit.kind = "process_exit" => DatabaseUrlMissing

C7_Witness ==
    /\ env.APP_PORT = Set(<<"6", "5", "5", "3", "6">>)
    /\ env.GRACEFUL_SHUTDOWN_TIMEOUT = Set(<<"-", "5">>)
    /\ listener = [state |-> "closed", port |-> 8080]
    /\ sleepDuration = 10
    /\ elapsed = 10
    /\ exit = [kind |-> "returned", status |-> 0]

AllowedStep(from, to) ==
    \/ from = "none" /\ to = "start"
    \/ from = "start" /\ to \in {"Running", "Panicked"}
    \/ from = "Running" /\ to = "ShutdownRequested"
    \/ from = "ShutdownRequested" /\ to = "Draining"
    \/ from = "Draining" /\ to = "Exited"

C9_ErrStillExitsCleanly ==
    /\ exit.status = 1 => (DatabaseUrlMissing /\ exit.kind = "process_exit")
    /\ exit.kind = "returned" =>
          /\ exit.status = 0
          /\ Count(CleanMsg) = 1
          /\ log[Len(log)].msg = CleanMsg
          /\ Count(TerminatedMsg) = (IF serveResult = "Err" THEN 1 ELSE 0)
          /\ serveResult = "Err" =>
                log[Len(log) - 1] = Line("WARN", TerminatedMsg, -1)
    /\ exit.kind # "returned" => Count(CleanMsg) = 0
    /\ (serveResult = "Err" /\ pc = "exited")
          => exit.kind \in {"returned", "signal"}

C9_Witness ==
    /\ serveResult = "Err"
    /\ exit = [kind |-> "returned", status |-> 0]
    /\ Count(TerminatedMsg) = 1
    /\ Count(CleanMsg) = 1

(* C10: every termination trigger sent once the listener is bound is       *)
(* observed by shutdown_signal: the process then ends only by main         *)
(* returning, after the shutdown notice, the drain sleep and the           *)
(* clean-exit line.                                                        *)
C10_EveryTriggerAfterBindDrains ==
    (triggerAfterBind /\ pc = "exited")
       => /\ exit = [kind |-> "returned", status |-> 0]
          /\ Count(NoticeMsg) = 1
          /\ Count(CleanMsg) = 1

===========================================================================
